---- MODULE Spec2Model ----
(***************************************************************************)
(* Model of the DateTime picker of errands/widgets/components.py.          *)
(* Strings are sequences of one-character strings; the picker's fields,    *)
(* the two spin buttons and the calendar are the state; every signal       *)
(* handler runs synchronously inside the operation that triggers it.       *)
(***************************************************************************)
EXTENDS Integers, Sequences, FiniteSets, TLC

\* datetime, lock_signals: the fields of DateTime; hour, minutes: the values
\* of the two spin buttons; calendar: the selected day <<year, month, day>>;
\* now: the local clock; emitted: the "changed" emissions of the last
\* operation, each with the get_datetime() a subscriber reads at delivery;
\* last: the last operation, its argument, whether it raised, how many
\* times it ran _on_date_time_changed and whether a value was set before it;
\* subscriber: what the handler connected to "changed" does, "reader" (it
\* reads get_datetime()) or "setter" (it calls set_datetime(get_datetime())).
VARIABLES datetime, lock_signals, hour, minutes, calendar, now, emitted, last, subscriber

vars == <<datetime, lock_signals, hour, minutes, calendar, now, emitted, last, subscriber>>

\* ------------------------------------------------------------------ bounds
MaxClockDays == 1

\* deliveries of one operation that still run the subscriber
MaxCascade == 3

\* ------------------------------------------------------- characters, str()
DigitChar == <<"0", "1", "2", "3", "4", "5", "6", "7", "8", "9">>

IsDigit(c) == \E n \in 1..10 : DigitChar[n] = c

CharVal(c) == (CHOOSE n \in 1..10 : DigitChar[n] = c) - 1

AllDigits(s) == \A i \in 1..Len(s) : IsDigit(s[i])

RECURSIVE str(_)
str(n) == IF n < 10 THEN <<DigitChar[n + 1]>>
          ELSE str(n \div 10) \o <<DigitChar[(n % 10) + 1]>>

RECURSIVE int(_)
int(s) == IF Len(s) = 0 THEN 0
          ELSE 10 * int(SubSeq(s, 1, Len(s) - 1)) + CharVal(s[Len(s)])

RECURSIVE ZeroPad(_, _)
ZeroPad(s, w) == IF Len(s) >= w THEN s ELSE ZeroPad(<<"0">> \o s, w)

\* Python slice s[a:b] (0-based, end exclusive, clipped to the string)
Slice(s, a, b) == SubSeq(s, a + 1, IF b > Len(s) THEN Len(s) ELSE b)

\* ------------------------------------------------------------------- dates
IsLeap(y) == (y % 4 = 0) /\ ((y % 100 # 0) \/ (y % 400 = 0))

DaysInMonth(y, m) ==
    IF m = 2 THEN (IF IsLeap(y) THEN 29 ELSE 28)
    ELSE IF m \in {4, 6, 9, 11} THEN 30 ELSE 31

RECURSIVE DaysBeforeMonth(_, _)
DaysBeforeMonth(y, m) ==
    IF m = 1 THEN 0 ELSE DaysBeforeMonth(y, m - 1) + DaysInMonth(y, m - 1)

\* days before January 1st of year y
DaysBeforeYear(y) ==
    LET p == y - 1 IN p * 365 + (p \div 4) - (p \div 100) + (p \div 400)

toordinal(d) == DaysBeforeYear(d[1]) + DaysBeforeMonth(d[1], d[2]) + d[3]

\* datetime's _ord2ymd
fromordinal(n0) ==
    LET a    == n0 - 1
        n400 == a \div 146097
        b    == a % 146097
        n100 == b \div 36524
        c    == b % 36524
        n4   == c \div 1461
        e    == c % 1461
        n1   == e \div 365
        n    == e % 365
        year == n400 * 400 + 1 + n100 * 100 + n4 * 4 + n1
        leap == n1 = 3 /\ (n4 # 24 \/ n100 = 3)
        mth  == (n + 50) \div 32
        ly   == IF leap THEN 4 ELSE 1    \* a year of the same leapness
        prec == DaysBeforeMonth(ly, mth)
        m2   == IF prec > n THEN mth - 1 ELSE mth
        p2   == DaysBeforeMonth(ly, m2)
    IN  IF n1 = 4 \/ n100 = 4 THEN <<year - 1, 12, 31>>
        ELSE <<year, m2, n - p2 + 1>>

\* mutant of AddDays: bumps the day field, no month or year roll-over
AddDays_no_rollover(d, k) == <<d[1], d[2], d[3] + k>>

\* date + datetime.timedelta(k)
AddDays(d, k) == fromordinal(toordinal(d) + k)

\* strftime / GLib.DateTime.format of "%Y%m%d"
FormatDate(d) == ZeroPad(str(d[1]), 4) \o ZeroPad(str(d[2]), 2) \o ZeroPad(str(d[3]), 2)

\* Gtk.Calendar.get_date().format("%Y%m%d") (GLib does not pad %Y)
calendar_format(d) == str(d[1]) \o ZeroPad(str(d[2]), 2) \o ZeroPad(str(d[3]), 2)

\* strftime("%Y%m%dT%H%M00")
strftime(d, h, m) ==
    FormatDate(d) \o <<"T">> \o ZeroPad(str(h), 2) \o ZeroPad(str(m), 2) \o <<"0", "0">>

\* ------------------------------------------- datetime.datetime.fromisoformat
\* The date part is YYYYMMDD or YYYY-MM-DD, then optionally one separator
\* character and a time part hh, hhmm, hhmmss, hh:mm or hh:mm:ss.
NoParse == [ok |-> FALSE, date |-> <<0, 0, 0>>, h |-> 0, m |-> 0, s |-> 0]

DateLen(s) == IF Len(s) >= 10 /\ s[5] = "-" THEN 10 ELSE 8

ParseDate(s) ==
    IF Len(s) = 8 /\ AllDigits(s)
    THEN <<int(Slice(s, 0, 4)), int(Slice(s, 4, 6)), int(Slice(s, 6, 8))>>
    ELSE IF Len(s) = 10 /\ s[5] = "-" /\ s[8] = "-"
            /\ AllDigits(Slice(s, 0, 4) \o Slice(s, 5, 7) \o Slice(s, 8, 10))
    THEN <<int(Slice(s, 0, 4)), int(Slice(s, 5, 7)), int(Slice(s, 8, 10))>>
    ELSE <<0, 0, 0>>

ParseTime(s) ==
    IF Len(s) \in {2, 4, 6} /\ AllDigits(s)
    THEN <<int(Slice(s, 0, 2)), int(Slice(s, 2, 4)), int(Slice(s, 4, 6))>>
    ELSE IF Len(s) \in {5, 8} /\ s[3] = ":" /\ (Len(s) = 8 => s[6] = ":")
            /\ AllDigits(Slice(s, 0, 2) \o Slice(s, 3, 5) \o Slice(s, 6, 8))
    THEN <<int(Slice(s, 0, 2)), int(Slice(s, 3, 5)), int(Slice(s, 6, 8))>>
    ELSE <<99, 99, 99>>

\* mutant of ValidDate: any day up to 31 in every month
ValidDate_lax(d) == d[1] \in 1..9999 /\ d[2] \in 1..12 /\ d[3] \in 1..31

ValidDate(d) ==
    /\ d[1] \in 1..9999
    /\ d[2] \in 1..12
    /\ d[3] >= 1 /\ d[3] <= DaysInMonth(d[1], d[2])

ValidTime(t) == t[1] \in 0..23 /\ t[2] \in 0..59 /\ t[3] \in 0..59

fromisoformat(s) ==
    IF Len(s) < 8 THEN NoParse
    ELSE LET n == DateLen(s)
             d == ParseDate(Slice(s, 0, n))
             t == IF Len(s) = n THEN <<0, 0, 0>>
                  ELSE ParseTime(Slice(s, n + 1, Len(s)))
         IN  IF ValidDate(d) /\ ValidTime(t)
             THEN [ok |-> TRUE, date |-> d, h |-> t[1], m |-> t[2], s |-> t[3]]
             ELSE NoParse

\* ---------------------------------------------------------- the DateTime box
\* The picker as a record, so that handlers compose as the calls nest.
Self == [datetime |-> datetime, lock_signals |-> lock_signals, hour |-> hour,
         minutes |-> minutes, calendar |-> calendar, emitted |-> <<>>, runs |-> 0,
         subscriber |-> subscriber, today |-> now.date, resignal |-> FALSE]

\* the picker on a toolkit that does (r) or does not re-emit "day-selected"
\* for the day already selected
Me(r) == [Self EXCEPT !.resignal = r]

RECURSIVE set_datetime(_, _, _, _)

\* self.emit("changed"): the signal has no payload; a subscriber reads
\* get_datetime() at delivery, which is what the log keeps.
\* Delivery is synchronous: a "setter" subscriber calls
\* set_datetime(get_datetime()) before emit returns.
Emit(s) ==
    LET s1 == [s EXCEPT !.emitted = Append(@, s.datetime)]
    IN  IF s.subscriber = "setter" /\ Len(s.emitted) < MaxCascade
        THEN set_datetime(s1, s1.datetime, s1.today, s1.resignal)
        ELSE s1

\* mutant of _on_date_time_changed: emits whatever lock_signals says
_on_date_time_changed_unlocked(s) ==
    Emit([s EXCEPT !.datetime = calendar_format(s.calendar) \o <<"T">>
                                   \o ZeroPad(str(s.hour), 2) \o ZeroPad(str(s.minutes), 2)
                                   \o <<"0", "0">>,
                   !.runs = @ + 1])

\* mutant of _on_date_time_changed: hour and minute are not zero-padded
_on_date_time_changed_no_pad(s) ==
    LET s1 == [s EXCEPT !.datetime = calendar_format(s.calendar) \o <<"T">>
                                        \o str(s.hour) \o str(s.minutes) \o <<"0", "0">>,
                        !.runs = @ + 1]
    IN  IF ~s1.lock_signals THEN Emit(s1) ELSE s1

\* mutant of _on_date_time_changed: the minute text is read from self.hour
_on_date_time_changed_hour_twice(s) ==
    LET s1 == [s EXCEPT !.datetime = calendar_format(s.calendar) \o <<"T">>
                                        \o ZeroPad(str(s.hour), 2) \o ZeroPad(str(s.hour), 2)
                                        \o <<"0", "0">>,
                        !.runs = @ + 1]
    IN  IF ~s1.lock_signals THEN Emit(s1) ELSE s1

_on_date_time_changed(s) ==
    LET h0   == str(s.hour)
        h1   == IF Len(h0) = 1 THEN <<"0">> \o h0 ELSE h0
        m0   == str(s.minutes)
        m1   == IF Len(m0) = 1 THEN <<"0">> \o m0 ELSE m0
        date == calendar_format(s.calendar)
        s1   == [s EXCEPT !.datetime = date \o <<"T">> \o h1 \o m1 \o <<"0", "0">>,
                          !.runs = @ + 1]
    IN  IF ~s1.lock_signals THEN Emit(s1) ELSE s1

Clamp(v, lo, hi) == IF v < lo THEN lo ELSE IF v > hi THEN hi ELSE v

\* Gtk.SpinButton.set_value on self.hour: clamped to the adjustment,
\* "value-changed" only when the value changes.
hour_set_value(s, v) ==
    LET c == Clamp(v, 0, 23)
    IN  IF c = s.hour THEN s ELSE _on_date_time_changed([s EXCEPT !.hour = c])

minutes_set_value(s, v) ==
    LET c == Clamp(v, 0, 59)
    IN  IF c = s.minutes THEN s ELSE _on_date_time_changed([s EXCEPT !.minutes = c])

\* mutant of calendar_select_day: "day-selected" is not connected to the
\* recomputation handler
calendar_select_day_unconnected(s, d, resignal) == [s EXCEPT !.calendar = d]

\* Gtk.Calendar.select_day: "day-selected" when the day changes; whether it
\* is emitted again for the day already selected depends on the toolkit
\* version (resignal).
calendar_select_day(s, d, resignal) ==
    IF d = s.calendar /\ ~resignal THEN s
    ELSE _on_date_time_changed([s EXCEPT !.calendar = d])

set_datetime_raises(dt) == dt # <<>> /\ ~fromisoformat(dt).ok

\* the sub-control updates of set_datetime, after lock_signals is set
set_datetime_widgets(s0, dt1, day, resignal) ==
    calendar_select_day(
        minutes_set_value(hour_set_value(s0, int(Slice(dt1, 9, 11))),
                          int(Slice(dt1, 11, 13))),
        day, resignal)

\* mutant of set_datetime: the final self.datetime = dt is missing
set_datetime_no_store(s, dt, today, resignal) ==
    LET s0 == [s EXCEPT !.lock_signals = TRUE]
        p  == fromisoformat(dt)
    IN  IF dt # <<>> /\ ~p.ok THEN s0
        ELSE IF dt # <<>>
        THEN [set_datetime_widgets(s0, strftime(p.date, p.h, p.m), p.date, resignal)
                 EXCEPT !.lock_signals = FALSE]
        ELSE [set_datetime_widgets(s0, strftime(today, 0, 0), today, resignal)
                 EXCEPT !.lock_signals = FALSE]

\* mutant of set_datetime: self.datetime = dt is done before the sub-controls
\* are updated
set_datetime_store_first(s, dt, today, resignal) ==
    LET s0 == [s EXCEPT !.lock_signals = TRUE]
        p  == fromisoformat(dt)
    IN  IF dt # <<>> /\ ~p.ok THEN s0
        ELSE IF dt # <<>>
        THEN [set_datetime_widgets([s0 EXCEPT !.datetime = strftime(p.date, p.h, p.m)],
                                   strftime(p.date, p.h, p.m), p.date, resignal)
                 EXCEPT !.lock_signals = FALSE]
        ELSE [set_datetime_widgets([s0 EXCEPT !.datetime = dt],
                                   strftime(today, 0, 0), today, resignal)
                 EXCEPT !.lock_signals = FALSE]

\* mutant of set_datetime: lock_signals is not raised at entry
set_datetime_no_lock(s, dt, today, resignal) ==
    LET p == fromisoformat(dt)
    IN  IF dt # <<>> /\ ~p.ok THEN s
        ELSE IF dt # <<>>
        THEN [set_datetime_widgets(s, strftime(p.date, p.h, p.m), p.date, resignal)
                 EXCEPT !.datetime = strftime(p.date, p.h, p.m), !.lock_signals = FALSE]
        ELSE [set_datetime_widgets(s, strftime(today, 0, 0), today, resignal)
                 EXCEPT !.datetime = dt, !.lock_signals = FALSE]

\* mutant of set_datetime: it emits "changed" itself when it is done
set_datetime_emits(s, dt, today, resignal) ==
    LET s0 == [s EXCEPT !.lock_signals = TRUE]
        p  == fromisoformat(dt)
    IN  IF dt # <<>> /\ ~p.ok THEN s0
        ELSE IF dt # <<>>
        THEN Emit([set_datetime_widgets(s0, strftime(p.date, p.h, p.m), p.date, resignal)
                     EXCEPT !.datetime = strftime(p.date, p.h, p.m), !.lock_signals = FALSE])
        ELSE Emit([set_datetime_widgets(s0, strftime(today, 0, 0), today, resignal)
                     EXCEPT !.datetime = dt, !.lock_signals = FALSE])

set_datetime(s, dt, today, resignal) ==
    LET s0 == [s EXCEPT !.lock_signals = TRUE]
    IN  IF dt # <<>>
        THEN LET p == fromisoformat(dt)
             IN  IF ~p.ok THEN s0
                 ELSE LET dt1 == strftime(p.date, p.h, p.m)
                          s1  == hour_set_value(s0, int(Slice(dt1, 9, 11)))
                          s2  == minutes_set_value(s1, int(Slice(dt1, 11, 13)))
                          s3  == calendar_select_day(s2,
                                     <<int(Slice(dt1, 0, 4)), int(Slice(dt1, 4, 6)),
                                       int(Slice(dt1, 6, 8))>>, resignal)
                      IN  [s3 EXCEPT !.datetime = dt1, !.lock_signals = FALSE]
        ELSE LET s1 == hour_set_value(s0, 0)
                 s2 == minutes_set_value(s1, 0)
                 s3 == calendar_select_day(s2, today, resignal)
             IN  [s3 EXCEPT !.datetime = dt, !.lock_signals = FALSE]

\* btn.label.split(":")
Split(label) ==
    LET i == CHOOSE k \in 1..Len(label) : label[k] = ":" /\ \A j \in 1..(k - 1) : label[j] # ":"
    IN  <<SubSeq(label, 1, i - 1), SubSeq(label, i + 1, Len(label))>>

_on_time_preset_clicked(s, label) ==
    LET hm == Split(label)
    IN  minutes_set_value(hour_set_value(s, int(hm[1])), int(hm[2]))

Midnight == <<"T", "0", "0", "0", "0", "0", "0">>

_on_now_btn_clicked(s, clock, resignal) ==
    Emit(set_datetime(s, strftime(clock.date, clock.h, clock.m), clock.date, resignal))

_on_today_btn_clicked(s, clock, resignal) ==
    Emit(set_datetime(s, FormatDate(clock.date) \o Midnight, clock.date, resignal))

_on_tomorrow_btn_clicked(s, clock, resignal) ==
    Emit(set_datetime(s, FormatDate(AddDays(clock.date, 1)) \o Midnight, clock.date, resignal))

_on_clear_btn_clicked(s) == Emit([s EXCEPT !.datetime = <<>>])

get_datetime(s) == s.datetime

MonthName == <<"January", "February", "March", "April", "May", "June", "July",
               "August", "September", "October", "November", "December">>

NotSet == <<"Not Set">>

get_human_datetime(s) ==
    IF s.datetime # <<>>
    THEN Slice(s.datetime, 9, 11) \o <<":">> \o Slice(s.datetime, 11, 13) \o <<",", " ">>
         \o ZeroPad(str(s.calendar[3]), 2) \o <<" ", MonthName[s.calendar[2]], ",", " ">>
         \o str(s.calendar[1])
    ELSE NotSet

\* A Python int as two limbs <<hi, lo>> of value hi * 10^6 + lo.
BigInt(digits) ==
    IF Len(digits) <= 6 THEN <<0, int(digits)>>
    ELSE <<int(SubSeq(digits, 1, Len(digits) - 6)),
           int(SubSeq(digits, Len(digits) - 5, Len(digits)))>>

\* mutant of get_datetime_as_int: the seconds digits are cut off
get_datetime_as_int_short(s) ==
    IF s.datetime # <<>>
    THEN BigInt(Slice(s.datetime, 0, 8) \o Slice(s.datetime, 9, 13))
    ELSE <<0, 0>>

get_datetime_as_int(s) ==
    IF s.datetime # <<>>
    THEN BigInt(Slice(s.datetime, 0, 8) \o Slice(s.datetime, 9, Len(s.datetime)))
    ELSE <<0, 0>>

\* ------------------------------------------------------------------ inputs
Chars(d, sep, t) == d \o sep \o t

TimePresets == { <<"0", "9", ":", "0", "0">>, <<"1", "3", ":", "0", "0">>,
                 <<"1", "7", ":", "0", "0">>, <<"2", "0", ":", "0", "0">> }

UserHours == {0, 23}

UserMinutes == {0, 30}

UserDays == { <<2024, 2, 29>> }

D0115 == <<"2", "0", "2", "4", "0", "1", "1", "5">>

D0229 == <<"2", "0", "2", "4", "0", "2", "2", "9">>

CanonicalInputs ==
    { Chars(d, <<"T">>, t) : d \in {D0115},
                            t \in { <<"0", "9", "0", "0", "0", "0">>,
                                    <<"2", "3", "5", "9", "0", "0">> } }

\* parseable, but not canonical: seconds, extended format, date only
LooseInputs ==
    { Chars(D0115, <<"T">>, <<"1", "0", "3", "0", "4", "5">>),
      <<"2", "0", "2", "4", "-", "0", "1", "-", "1", "5", "T",
        "0", "9", ":", "3", "0", ":", "0", "0">>,
      D0229 }

MalformedInputs ==
    { <<"a", "b", "c">>,
      Chars(<<"2", "0", "2", "3", "0", "2", "2", "9">>, <<"T">>, <<"0", "9", "0", "0", "0", "0">>),
      Chars(D0115, <<"T">>, <<"2", "4", "0", "0", "0", "0">>),
      Chars(D0115, <<"T">>, <<"0", "9", "x", "0", "0", "0">>) }

SetInputs == CanonicalInputs \cup LooseInputs \cup MalformedInputs \cup {<<>>}

\* the local clock: datetime.datetime.now() / GLib.DateTime.new_now_local()
StartDates == { <<2023, 12, 31>>, <<2024, 2, 28>> }

ClockTimes == { <<9, 0>>, <<23, 59>> }

Later(a, b) == a[1] < b[1] \/ (a[1] = b[1] /\ a[2] < b[2])

\* ----------------------------------------------------------------- actions
Store(s, op, arg, raised) ==
    /\ datetime' = s.datetime
    /\ lock_signals' = s.lock_signals
    /\ hour' = s.hour
    /\ minutes' = s.minutes
    /\ calendar' = s.calendar
    /\ emitted' = s.emitted
    /\ last' = [op |-> op, arg |-> arg, raised |-> raised, runs |-> s.runs,
                was_set |-> datetime # <<>>]
    /\ UNCHANGED <<now, subscriber>>

\* __init__ / _build_ui: class attributes, fresh spin buttons, calendar on today
Constructed ==
    /\ now \in [date : StartDates, age : {0}, h : {9}, m : {0}]
    /\ datetime = <<>>
    /\ lock_signals = TRUE
    /\ hour = 0
    /\ minutes = 0
    /\ calendar = now.date
    /\ emitted = <<>>
    /\ last = [op |-> "init", arg |-> <<>>, raised |-> FALSE, runs |-> 0,
               was_set |-> FALSE]

Init == Constructed /\ subscriber = "reader"

\* the owner connects a handler to "changed" that writes the value back
InitSub == Constructed /\ subscriber = "setter"

\* the user edits the hour spin button
UserHour == \E v \in UserHours, r \in BOOLEAN :
    Store(hour_set_value(Me(r), v), "hour", str(v), FALSE)

\* the user edits the minute spin button
UserMinute == \E v \in UserMinutes, r \in BOOLEAN :
    Store(minutes_set_value(Me(r), v), "minutes", str(v), FALSE)

\* the user selects a day on the calendar
UserDay == \E d \in UserDays, r \in BOOLEAN :
    Store(calendar_select_day(Me(r), d, r), "day", FormatDate(d), FALSE)

TimePreset == \E l \in TimePresets, r \in BOOLEAN :
    Store(_on_time_preset_clicked(Me(r), l), "preset", l, FALSE)

NowBtn == \E r \in BOOLEAN :
    Store(_on_now_btn_clicked(Me(r), now, r), "now", <<>>, FALSE)

TodayBtn == \E r \in BOOLEAN :
    Store(_on_today_btn_clicked(Me(r), now, r), "today", <<>>, FALSE)

TomorrowBtn == \E r \in BOOLEAN :
    Store(_on_tomorrow_btn_clicked(Me(r), now, r), "tomorrow", <<>>, FALSE)

ClearBtn == \E r \in BOOLEAN :
    Store(_on_clear_btn_clicked(Me(r)), "clear", <<>>, FALSE)

\* an embedding caller calls set_datetime
SetDatetime == \E dt \in SetInputs, r \in BOOLEAN :
    Store(set_datetime(Me(r), dt, now.date, r), "set_datetime", dt, set_datetime_raises(dt))

\* local time passes
Tick ==
    /\ \/ \E t \in ClockTimes :
            /\ Later(<<now.h, now.m>>, t)
            /\ now' = [now EXCEPT !.h = t[1], !.m = t[2]]
       \/ \E t \in ClockTimes :
            /\ now.age < MaxClockDays
            /\ now' = [date |-> AddDays(now.date, 1), age |-> now.age + 1,
                       h |-> t[1], m |-> t[2]]
    /\ emitted' = <<>>
    /\ last' = [op |-> "tick", arg |-> <<>>, raised |-> FALSE, runs |-> 0,
               was_set |-> FALSE]
    /\ UNCHANGED <<datetime, lock_signals, hour, minutes, calendar, subscriber>>

Next ==
    \/ UserHour
    \/ UserMinute
    \/ UserDay
    \/ TimePreset
    \/ NowBtn
    \/ TodayBtn
    \/ TomorrowBtn
    \/ ClearBtn
    \/ SetDatetime
    \/ Tick

Spec == Init /\ [][Next]_vars

SpecSub == InitSub /\ [][Next]_vars

TypeOK ==
    /\ hour \in 0..23
    /\ minutes \in 0..59
    /\ lock_signals \in BOOLEAN
    /\ Len(emitted) <= 3

\* ------------------------------------------------------------------ claims
\* what the claims expect, written without the picker's own formatting code
TwoDigits(n) == <<DigitChar[(n \div 10) + 1], DigitChar[(n % 10) + 1]>>

ExpectedDate(d) == TwoDigits(d[1] \div 100) \o TwoDigits(d[1] % 100)
                   \o TwoDigits(d[2]) \o TwoDigits(d[3])

ExpectedValue(d, h, m) == ExpectedDate(d) \o <<"T">> \o TwoDigits(h) \o TwoDigits(m) \o <<"0", "0">>

DayAfter(d) ==
    IF d[3] < DaysInMonth(d[1], d[2]) THEN <<d[1], d[2], d[3] + 1>>
    ELSE IF d[2] < 12 THEN <<d[1], d[2] + 1, 1>>
    ELSE <<d[1] + 1, 1, 1>>

\* YYYYMMDDThhmm00 of a real date, hour 0..23, minute 0..59
IsCanonical(x) ==
    /\ Len(x) = 15
    /\ x[9] = "T"
    /\ \A i \in (1..15) \ {9} : IsDigit(x[i])
    /\ x[14] = "0" /\ x[15] = "0"
    /\ \E d \in {<<int(SubSeq(x, 1, 4)), int(SubSeq(x, 5, 6)), int(SubSeq(x, 7, 8))>>} :
          d[1] >= 1000 /\ d[2] \in 1..12 /\ d[3] >= 1 /\ d[3] <= DaysInMonth(d[1], d[2])
    /\ int(SubSeq(x, 10, 11)) \in 0..23
    /\ int(SubSeq(x, 12, 13)) \in 0..59

\* C1: set_datetime(s) with a valid canonical string s, then get_datetime(),
\* returns s, from every reachable state.
C1_RoundTrip ==
    (last.op = "set_datetime" /\ IsCanonical(last.arg)) => get_datetime(Self) = last.arg

\* C1 witness: a canonical string was set while all three sub-controls changed
\* and ran the recomputation handler, and it is read back.
C1_Witness ==
    /\ last.op = "set_datetime" /\ IsCanonical(last.arg) /\ last.runs = 3
    /\ get_datetime(Self) = last.arg

\* C2: no "changed" notification is emitted during a set_datetime call, for a
\* valid, an empty or any other argument.
C2_SetDatetimeSilent == last.op = "set_datetime" => emitted = <<>>

\* C2 witness: a set_datetime call that changed hour, minute and day, ran the
\* handler three times and emitted nothing.
C2_Witness == last.op = "set_datetime" /\ ~last.raised /\ last.runs = 3 /\ emitted = <<>>

\* C3: in every state reachable after construction, a user edit that changes
\* the hour, the minute or the selected day emits exactly one notification.
C3_UserEditEmitsOnce ==
    [][ (\/ (last'.op = "hour" /\ hour' # hour)
         \/ (last'.op = "minutes" /\ minutes' # minutes)
         \/ (last'.op = "day" /\ calendar' # calendar))
        => Len(emitted') = 1 ]_vars

\* C4: each press of Now, Today, Tomorrow or Clear emits exactly one
\* notification in total.
C4_PresetEmitsOnce ==
    last.op \in {"now", "today", "tomorrow", "clear"} => Len(emitted) = 1

\* C4 witness: a press of Now that updated all three sub-controls and emitted
\* once.
C4_Witness == last.op = "now" /\ last.runs = 3 /\ Len(emitted) = 1

\* C5: after Clear the picker is in the state that set_datetime("") reaches
\* from the same state: value unset, both steppers 0, calendar on today.
C5_ClearIsSetEmpty ==
    [][ last'.op = "clear" =>
          \E r \in BOOLEAN :
             LET t == set_datetime(Self, <<>>, now.date, r)
             IN  /\ datetime' = t.datetime
                 /\ hour' = t.hour
                 /\ minutes' = t.minutes
                 /\ calendar' = t.calendar
                 /\ lock_signals' = t.lock_signals ]_vars

\* C6: after a press of the time preset HH:MM the steppers are HH and MM and
\* get_datetime() is a set value whose time portion is THHMM00.
C6_TimePresetValue ==
    last.op = "preset" =>
        /\ TwoDigits(hour) = SubSeq(last.arg, 1, 2)
        /\ TwoDigits(minutes) = SubSeq(last.arg, 4, 5)
        /\ get_datetime(Self) # <<>>
        /\ Slice(get_datetime(Self), 8, 15)
               = <<"T">> \o SubSeq(last.arg, 1, 2) \o SubSeq(last.arg, 4, 5) \o <<"0", "0">>

\* C7: a press of a time preset, with notifications not suppressed, notifies
\* exactly once whatever the steppers were before.
C7_TimePresetEmitsOnce ==
    (last.op = "preset" /\ ~lock_signals) => Len(emitted) = 1

\* C8: right after construction and after set_datetime(""), get_datetime() is
\* empty, get_human_datetime() is "Not Set" and get_datetime_as_int() is 0.
C8_UnsetResults ==
    (last.op = "init" \/ (last.op = "set_datetime" /\ last.arg = <<>>)) =>
        /\ get_datetime(Self) = <<>>
        /\ get_human_datetime(Self) = <<"Not Set">>
        /\ get_datetime_as_int(Self) = <<0, 0>>

\* C8 witness: set_datetime("") reset the steppers and the day, which ran the
\* handler, and the getters give the unset results.
C8_Witness ==
    /\ last.op = "set_datetime" /\ last.arg = <<>> /\ last.runs = 3
    /\ get_datetime(Self) = <<>> /\ get_datetime_as_int(Self) = <<0, 0>>

\* C9: after Today the value is <today>T000000, after Tomorrow it is
\* <today + 1 day>T000000, after Now it is <today>T<hour><minute>00, and the
\* steppers and the calendar show the same date and time.
C9_PresetValues ==
    /\ last.op = "today" =>
          /\ get_datetime(Self) = ExpectedValue(now.date, 0, 0)
          /\ hour = 0 /\ minutes = 0 /\ calendar = now.date
    /\ last.op = "tomorrow" =>
          /\ get_datetime(Self) = ExpectedValue(DayAfter(now.date), 0, 0)
          /\ hour = 0 /\ minutes = 0 /\ calendar = DayAfter(now.date)
    /\ last.op = "now" =>
          /\ get_datetime(Self) = ExpectedValue(now.date, now.h, now.m)
          /\ hour = now.h /\ minutes = now.m /\ calendar = now.date

\* C9 witness: Tomorrow pressed on the last day of a year, the value is the
\* first of January of the next year.
C9_Witness ==
    /\ last.op = "tomorrow" /\ now.date = <<2023, 12, 31>>
    /\ calendar = <<2024, 1, 1>> /\ get_datetime(Self) = ExpectedValue(<<2024, 1, 1>>, 0, 0)

\* C10: set_datetime with a malformed non-empty string raises, emits nothing
\* and leaves the value, both steppers and the calendar as they were.
C10_MalformedRaises ==
    [][ (last'.op = "set_datetime" /\ last'.arg \in MalformedInputs) =>
          /\ last'.raised
          /\ emitted' = <<>>
          /\ datetime' = datetime
          /\ hour' = hour
          /\ minutes' = minutes
          /\ calendar' = calendar ]_vars

\* C10 witness: a malformed string was refused on a picker holding a value.
C10_Witness ==
    /\ last.op = "set_datetime" /\ last.arg \in MalformedInputs /\ last.raised
    /\ datetime # <<>> /\ hour # 0

\* C11: in every reachable state the stored value is empty or canonical:
\* 8 date digits, T, hour 00..23, minute 00..59, seconds 00 (15 characters).
C11_ValueCanonical == datetime = <<>> \/ IsCanonical(datetime)

\* C11 witness: set_datetime was given a parseable string with seconds 45 and
\* the stored value is the 15-character value with seconds 00.
C11_Witness ==
    /\ last.op = "set_datetime"
    /\ last.arg = Chars(D0115, <<"T">>, <<"1", "0", "3", "0", "4", "5">>)
    /\ datetime = ExpectedValue(<<2024, 1, 15>>, 10, 30)

\* C12: get_datetime_as_int() is 0 exactly when the value is unset; for a set
\* value it is year*10^10 + month*10^8 + day*10^6 + hour*10^4 + minute*10^2,
\* here the limbs <<year*10^4 + month*10^2 + day, hour*10^4 + minute*10^2>>.
C12_AsInt ==
    /\ (get_datetime_as_int(Self) = <<0, 0>>) <=> (datetime = <<>>)
    /\ datetime # <<>> =>
          get_datetime_as_int(Self) =
             << int(SubSeq(datetime, 1, 4)) * 10000 + int(SubSeq(datetime, 5, 6)) * 100
                   + int(SubSeq(datetime, 7, 8)),
                int(SubSeq(datetime, 10, 11)) * 10000 + int(SubSeq(datetime, 12, 13)) * 100 >>
    /\ datetime = ExpectedValue(<<2024, 1, 15>>, 9, 0) =>
          get_datetime_as_int(Self) = <<20240115, 90000>>

\* C12 witness: the value is 20240115T090000 and the integer is 20240115090000.
C12_Witness ==
    /\ datetime = ExpectedValue(<<2024, 1, 15>>, 9, 0)
    /\ get_datetime_as_int(Self) = <<20240115, 90000>>

\* C13: after construction lock_signals is false whenever no set_datetime
\* call is executing (every state between two operations).
C13_LockClearBetweenCalls == ~lock_signals

C16_NoIntermediateValue == \A i \in 1..Len(emitted) : emitted[i] = datetime

\* C17: with a subscriber that answers every notification by calling
\* set_datetime(get_datetime()) synchronously, every user action ends after at
\* most two notifications.
C17_NoCascade ==
    (subscriber = "setter"
       /\ last.op \in {"hour", "minutes", "day", "preset", "now", "today", "tomorrow", "clear"})
    => Len(emitted) <= 2

\* C17 witness: a time preset changed both steppers, each change was delivered
\* to the subscriber, which called set_datetime, and nothing more was emitted.
C17_Witness ==
    subscriber = "setter" /\ last.op = "preset" /\ last.runs >= 2 /\ Len(emitted) = 2

====
